---- MODULE Spec2Model ----
(***************************************************************************)
(* Index selection by lexicographic constraint optimisation.               *)
(*                                                                         *)
(* The module models reader.Reader (normalisation of the problem and the   *)
(* settings, the store of solutions, get_results), goal.Goal (value,       *)
(* objective, constraint) and utils.run.  optimizer.py, modelize.py and    *)
(* stats.py are imported by these files but are not part of the sources    *)
(* at hand; the loop over the goals, the decision model and the solver     *)
(* are written from sections 4.3 and 4.4 of the specification.             *)
(*                                                                         *)
(* Numbers.  A JSON number of the problem file is held as an integer count *)
(* of 1/(2*_multiplier) units, so that Reader._upscale has ties to round.  *)
(* Python floats are taken as exact rationals.  A tolerance is held in     *)
(* hundredths.  Python's assert statements are taken as enabled.           *)
(***************************************************************************)
EXTENDS Integers, Sequences, FiniteSets, TLC

VARIABLES
    input,          \* the arguments of utils.run: [problem, settings]
    pc,             \* position of utils.run / of the driver of the objects
    error,          \* the exception that ended the run, "none" if none
    translation,    \* Reader._translation
    problem,        \* Reader._problem
    settings,       \* Reader._settings
    solutions,      \* Reader._solutions, a dict in insertion order
    goals,          \* the Goal objects of the optimizer, in priority order
    cur,            \* index of the goal the optimizer is working on
    model,          \* the constraints added to the shared CP model
    calls,          \* history: the update_value and add_solution calls, in call order
    last,           \* the last constructor or method called from outside, and what it returned
    results         \* what get_results returned

vars == <<input, pc, error, translation, problem, settings, solutions,
          goals, cur, model, calls, last, results>>

-----------------------------------------------------------------------------
(* Bounds of the input families.                                           *)

MaxScans == 2
MaxRaw == 2
MaxEntries == 2
MaxRules == 2
MaxGoals == 2
MaxCalls == 4
MaxValue == 2

-----------------------------------------------------------------------------
(* JSON values.                                                            *)

JNull == [k |-> "null", v |-> 0]
JInt(n) == [k |-> "int", v |-> n]
\* a float, held as twice its value (so that 1.5 is JFloat(3))
JFloat(h) == [k |-> "float", v |-> h]
JBool(b) == [k |-> "bool", v |-> b]
JStr == [k |-> "str", v |-> 0]
\* a number of the problem file, held as a count of 1/RawDen units
JNum(r) == [k |-> "num", v |-> r]

\* Python: value is None
IsNone(j) ==
    j.k = "null"

\* Python: isinstance(value, int); bool is a subclass of int
IsInstanceInt(j) ==
    j.k \in {"int", "bool"}

\* Python: isinstance(value, (int, float))
IsInstanceIntFloat(j) ==
    j.k \in {"int", "bool", "float"}

\* twice the numeric value of a Python int, bool or float
Twice(j) ==
    IF j.k = "float" THEN j.v ELSE 2 * j.v

-----------------------------------------------------------------------------
(* Sequence helpers standing for Python built-ins.                         *)

\* tuple.index / list.index: the first position of e, 0 when it raises ValueError
IndexOf(s, e) ==
    IF \E i \in 1..Len(s) : s[i] = e
    THEN CHOOSE i \in 1..Len(s) : s[i] = e /\ \A h \in 1..(i - 1) : s[h] # e
    ELSE 0

\* the sequences over S of length at most n
SeqUpTo(S, n) ==
    {SubSeq(f, 1, m) : f \in [1..n -> S], m \in 0..n}

-----------------------------------------------------------------------------
(* Reader: scaling.                                                        *)

_multiplier == 100

\* the denominator of a raw number: raw r stands for r / RawDen
RawDen ==
    2 * _multiplier

\* Python round() of q + r/d, where 0 <= r < d: to nearest, ties to even
RoundParts(q, r, d) ==
    IF 2 * r < d THEN q
    ELSE IF 2 * r > d THEN q + 1
    ELSE IF q % 2 = 0 THEN q ELSE q + 1

\* Python round() of the rational n / d
RoundHalfEven(n, d) ==
    RoundParts(n \div d, n % d, d)

\* Reader._upscale of the raw number r: round(value * _multiplier)
Upscale(r) ==
    RoundHalfEven(r * _multiplier, RawDen)

-----------------------------------------------------------------------------
(* Reader: the problem.                                                    *)
(*                                                                         *)
(* problem file: [Scans, Existing, Possible]                               *)
(*   scan  : [ScanID, SeqCost, ExistingIndexCosts, PossibleIndexCosts]     *)
(*   cost  : [OID, Cost]          index : [OID, IWO]                       *)
(* SeqCost is a JSON value (JNull or JNum); Cost and IWO are raw numbers.  *)

\* the state of the class attributes _problem and _translation before any Reader
EmptyTranslation ==
    [ScanIDs |-> <<>>, IndexOIDs |-> <<>>]

EmptyProblem ==
    [NumExisting |-> 0, NumPossible |-> 0, SeqCosts |-> <<>>,
     IndexCosts |-> <<>>, IWOs |-> <<>>, B |-> <<>>, R |-> <<>>]

\* the IDs of the scans that have a sequential cost, in file order
RECURSIVE KeptScanIDs(_)
KeptScanIDs(scans) ==
    IF scans = <<>> THEN <<>>
    ELSE (IF ~IsNone(Head(scans).SeqCost) THEN <<Head(scans).ScanID>> ELSE <<>>)
         \o KeptScanIDs(Tail(scans))

\* Reader._build_translation
BuildTranslation(p) ==
    LET ix == p.Existing \o p.Possible
    IN  [ScanIDs |-> KeptScanIDs(p.Scans),
         IndexOIDs |-> [i \in 1..Len(ix) |-> ix[i].OID]]

\* Reader.get_num_scans
get_num_scans(tr) ==
    Len(tr.ScanIDs)

\* Reader.get_num_pind
get_num_pind(pr) ==
    pr.NumPossible

\* Reader.get_num_eind
get_num_eind(pr) ==
    pr.NumExisting

\* ReadIndexCost keeping a cost equal to the sequential cost
ReadIndexCost_KeepsEqual(st, index_idx, scan_idx, cost, scan_sequential_cost) ==
    IF index_idx = 0 THEN [st EXCEPT !.err = "ValueError"]
    ELSE IF cost > scan_sequential_cost THEN st
    ELSE [st EXCEPT !.ic[index_idx][scan_idx] = JInt(cost)]

\* one index cost of a scan: kept when it is better than the sequential cost
\* st = [err, seq, ic]: the exception raised, if any, and the two arrays
ReadIndexCost(st, index_idx, scan_idx, cost, scan_sequential_cost) ==
    IF index_idx = 0 THEN [st EXCEPT !.err = "ValueError"]
    ELSE IF cost >= scan_sequential_cost THEN st
    ELSE [st EXCEPT !.ic[index_idx][scan_idx] = JInt(cost)]

\* the inner loop of _read_problem over the index costs of one scan
RECURSIVE ReadIndexCosts(_, _, _, _, _)
ReadIndexCosts(st, tr, entries, scan_idx, scan_sequential_cost) ==
    IF entries = <<>> \/ st.err # "none" THEN st
    ELSE ReadIndexCosts(
            ReadIndexCost(st, IndexOf(tr.IndexOIDs, Head(entries).OID), scan_idx,
                          Upscale(Head(entries).Cost), scan_sequential_cost),
            tr, Tail(entries), scan_idx, scan_sequential_cost)

\* the body of the loop over the scans, once the sequential cost is upscaled
ReadScanCosts(st, tr, scan, scan_idx, scan_sequential_cost) ==
    ReadIndexCosts([st EXCEPT !.seq[scan_idx] = JInt(scan_sequential_cost)], tr,
                   scan.ExistingIndexCosts \o scan.PossibleIndexCosts,
                   scan_idx, scan_sequential_cost)

\* the body of the loop over the scans: the scan's place, then its costs
ReadScan(st, tr, scan, scan_idx) ==
    IF scan_idx = 0 THEN [st EXCEPT !.err = "ValueError"]
    ELSE IF IsNone(scan.SeqCost) THEN [st EXCEPT !.err = "TypeError"]
    ELSE ReadScanCosts(st, tr, scan, scan_idx, Upscale(scan.SeqCost.v))

\* the loop of _read_problem over the scans
RECURSIVE ReadScans(_, _, _)
ReadScans(st, tr, scans) ==
    IF scans = <<>> \/ st.err # "none" THEN st
    ELSE ReadScans(ReadScan(st, tr, Head(scans), IndexOf(tr.ScanIDs, Head(scans).ScanID)),
                   tr, Tail(scans))

\* the body of the loop over the indexes; st = [err, iwo]
ReadIndex(st, index_idx, index) ==
    IF index_idx = 0 THEN [st EXCEPT !.err = "ValueError"]
    ELSE [st EXCEPT !.iwo[index_idx] = JInt(Upscale(index.IWO))]

\* the loop of _read_problem over the indexes
RECURSIVE ReadIndexes(_, _, _)
ReadIndexes(st, tr, indexes) ==
    IF indexes = <<>> \/ st.err # "none" THEN st
    ELSE ReadIndexes(ReadIndex(st, IndexOf(tr.IndexOIDs, Head(indexes).OID), Head(indexes)),
                     tr, Tail(indexes))

\* the matrix of type B: 1 where an index cost was kept, else 0
CostsB(ic) ==
    [i \in DOMAIN ic |-> [j \in DOMAIN ic[i] |->
        IF ~IsNone(ic[i][j]) THEN 1 ELSE 0]]

\* the matrix of type R: the index cost where kept, else the sequential cost
CostsR(ic, seq) ==
    [i \in DOMAIN ic |-> [j \in DOMAIN ic[i] |->
        IF IsNone(ic[i][j]) THEN seq[j] ELSE ic[i][j]]]

\* _read_problem, first part: the counts and the arrays of None
AllocProblem(pr0, tr, p) ==
    [pr0 EXCEPT
       !.NumExisting = Len(p.Existing),
       !.NumPossible = Len(p.Possible),
       !.SeqCosts = [j \in 1..Len(tr.ScanIDs) |-> JNull],
       !.IndexCosts = [i \in 1..Len(tr.IndexOIDs) |-> [j \in 1..Len(tr.ScanIDs) |-> JNull]],
       !.IWOs = [i \in 1..Len(tr.IndexOIDs) |-> JNull]]

\* _read_problem, last part: the write overheads read (ix), the two matrices
ReadProblemMatrices(tr, pr, ix) ==
    IF ix.err # "none"
    THEN [err |-> ix.err, translation |-> tr, problem |-> [pr EXCEPT !.IWOs = ix.iwo]]
    ELSE [err |-> "none", translation |-> tr,
          problem |-> [pr EXCEPT !.IWOs = ix.iwo,
                                 !.B = CostsB(pr.IndexCosts),
                                 !.R = CostsR(pr.IndexCosts, pr.SeqCosts)]]

\* _read_problem, after the scans were read (sc): the indexes
ReadProblemIndexes(tr, pr, sc, p) ==
    IF sc.err # "none"
    THEN [err |-> sc.err, translation |-> tr,
          problem |-> [pr EXCEPT !.SeqCosts = sc.seq, !.IndexCosts = sc.ic]]
    ELSE ReadProblemMatrices(tr, [pr EXCEPT !.SeqCosts = sc.seq, !.IndexCosts = sc.ic],
                             ReadIndexes([err |-> "none", iwo |-> pr.IWOs], tr,
                                         p.Existing \o p.Possible))

\* _read_problem, after the arrays were allocated: the assertion that there is
\* a possible index, then the scans
ReadProblemScans(tr, pr, p) ==
    IF ~(Len(pr.IWOs) > get_num_eind(pr))
    THEN [err |-> "AssertionError", translation |-> tr, problem |-> pr]
    ELSE ReadProblemIndexes(tr, pr,
            ReadScans([err |-> "none", seq |-> pr.SeqCosts, ic |-> pr.IndexCosts],
                      tr, p.Scans), p)

\* _read_problem after _build_translation
ReadProblemWith(tr, pr0, p) ==
    ReadProblemScans(tr, AllocProblem(pr0, tr, p), p)

\* Reader._read_problem on the class attributes (tr0, pr0): what it leaves in
\* them and the exception it raised, if any
ReadProblem(tr0, pr0, p) ==
    ReadProblemWith(BuildTranslation(p), pr0, p)

-----------------------------------------------------------------------------
(* Reader: the settings.                                                   *)
(*                                                                         *)
(* settings file: [hasOptions, hasGoals, Goals, hasRules, Rules]           *)
(*   goal : [Name, Tolerance]  (tolerance in hundredths)                   *)
(*   rule : [Name, Value]      (Value a JSON value)                        *)
(* NoSettings is the argument settings=None.                               *)

MaxPind == "Maximum Number of Possible Indexes"
MaxIWO == "Maximum Index Write Overhead"

NoSettings ==
    [given |-> FALSE, hasOptions |-> FALSE, hasGoals |-> FALSE, Goals |-> <<>>,
     hasRules |-> FALSE, Rules |-> <<>>]

\* json.loads(json.dumps({})): the object that stands in for settings=None
EmptyObject ==
    [given |-> TRUE, hasOptions |-> FALSE, hasGoals |-> FALSE, Goals |-> <<>>,
     hasRules |-> FALSE, Rules |-> <<>>]

\* the class attribute _settings before any Reader
EmptySettings ==
    [Goals |-> <<>>, Rules |-> <<>>]

\* Reader._rule_defaults, in the order of the dict
_rule_defaults ==
    << [Name |-> MaxPind, Value |-> JNull], [Name |-> MaxIWO, Value |-> JNull] >>

\* the goals _read_settings supplies when the settings give none
DefaultGoals ==
    << [Name |-> "Minimize Total Cost", Tolerance |-> 0],
       [Name |-> "Minimize Number of Indexes", Tolerance |-> 0] >>

\* sum(self._problem["Index IWOs"])
RECURSIVE SumJ(_)
SumJ(s) ==
    IF s = <<>> THEN 0 ELSE Head(s).v + SumJ(Tail(s))

\* "Add any missing rules": the defaults whose name the settings do not give
RECURSIVE MissingRules(_, _)
MissingRules(defaults, rule_names) ==
    IF defaults = <<>> THEN <<>>
    ELSE (IF \A i \in 1..Len(rule_names) : rule_names[i] # Head(defaults).Name
          THEN <<Head(defaults)>> ELSE <<>>)
         \o MissingRules(Tail(defaults), rule_names)

\* the two assertions on the maximum number of possible indexes
CheckMaxPind(value) ==
    [err |-> IF IsInstanceInt(value) /\ Twice(value) >= 2 * 1
             THEN "none" ELSE "AssertionError",
     Value |-> value]

\* the body of the loop "Set default values": the value the rule is left with
\* and the assertion that failed, if any
SetDefault(rule, pr) ==
    IF rule.Name = MaxPind
    THEN CheckMaxPind(IF IsNone(rule.Value) THEN JInt(get_num_pind(pr)) ELSE rule.Value)
    ELSE IF rule.Name = MaxIWO
    THEN IF IsNone(rule.Value)
         THEN [err |-> "none", Value |-> JInt(SumJ(pr.IWOs))]
         ELSE [err |-> IF IsInstanceIntFloat(rule.Value) /\ Twice(rule.Value) >= 0
                       THEN "none" ELSE "AssertionError",
               Value |-> rule.Value]
    ELSE [err |-> "none", Value |-> rule.Value]

\* rule i is left with what SetDefault gave (d); st = [err, rules]
StoreDefault(st, i, d) ==
    [err |-> d.err, rules |-> [st.rules EXCEPT ![i].Value = d.Value]]

\* the loop "Set default values" from rule i on
RECURSIVE SetDefaults(_, _, _)
SetDefaults(st, pr, i) ==
    IF i > Len(st.rules) \/ st.err # "none" THEN st
    ELSE SetDefaults(StoreDefault(st, i, SetDefault(st.rules[i], pr)), pr, i + 1)

\* _read_settings, the end: the settings as the loop over the rules left them
SettingsWith(gs, done) ==
    [err |-> done.err, settings |-> [Goals |-> gs, Rules |-> done.rules]]

\* _read_settings, from "There should be no duplicate rules" on
ReadRules(gs, rs, rule_names, pr) ==
    IF Len(rule_names) # Cardinality({rule_names[i] : i \in 1..Len(rule_names)})
    THEN [err |-> "AssertionError", settings |-> [Goals |-> gs, Rules |-> rs]]
    ELSE SettingsWith(gs,
            SetDefaults([err |-> "none",
                         rules |-> rs \o MissingRules(_rule_defaults, rule_names)],
                        pr, 1))

\* _read_settings, after the goals (gs) were taken: the rules
ReadGoalsRules(gs, rs, pr) ==
    ReadRules(gs, rs, [i \in 1..Len(rs) |-> rs[i].Name], pr)

\* Reader._read_settings on the class attribute st0, after _read_problem left pr
ReadSettings(st0, pr, s) ==
    IF ~s.hasOptions THEN [err |-> "KeyError", settings |-> st0]
    ELSE ReadGoalsRules(IF s.hasGoals THEN s.Goals ELSE DefaultGoals,
                        IF s.hasRules THEN s.Rules ELSE <<>>, pr)

\* what the getters of a rule return: the value of the first rule of that name,
\* None when there is none
RuleValue(st, name) ==
    LET names == [i \in 1..Len(st.Rules) |-> st.Rules[i].Name]
        i == IndexOf(names, name)
    IN  IF i = 0 THEN JNull ELSE st.Rules[i].Value

\* Reader.get_maximum_num_indexes
get_maximum_num_indexes(st) ==
    RuleValue(st, MaxPind)

\* Reader.get_maximum_iwo
get_maximum_iwo(st) ==
    RuleValue(st, MaxIWO)

\* Reader.__init__, the end: the attributes after _read_settings (rs)
ReaderWith(rp, rs) ==
    [err |-> rs.err, translation |-> rp.translation,
     problem |-> rp.problem, settings |-> rs.settings]

\* Reader.__init__ after _read_problem (rp): _read_settings, unless it raised
ReaderSettings(rp, st0, s) ==
    IF rp.err # "none"
    THEN [err |-> rp.err, translation |-> rp.translation,
          problem |-> rp.problem, settings |-> st0]
    ELSE ReaderWith(rp, ReadSettings(st0, rp.problem,
                                     IF ~s.given THEN EmptyObject ELSE s))

\* Reader.__init__ on the class attributes: _read_problem, then _read_settings
ReaderInit(tr0, pr0, st0, in) ==
    ReaderSettings(ReadProblem(tr0, pr0, in.problem), st0, in.settings)

-----------------------------------------------------------------------------
(* Reader: the solutions.                                                  *)
(* _solutions is a dict: a sequence of [key, sol] in insertion order.      *)
(* A solution is [x, value]: the selection vector under "x" and the        *)
(* achieved value under "Objective Value (Real)".                          *)

SolutionKeys(sols) ==
    [i \in 1..Len(sols) |-> sols[i].key]

\* Reader.add_solution: self._solutions[goal] = solution
add_solution(sols, goal, solution) ==
    LET i == IndexOf(SolutionKeys(sols), goal)
    IN  IF i = 0 THEN Append(sols, [key |-> goal, sol |-> solution])
        ELSE [sols EXCEPT ![i].sol = solution]

\* Reader.get_results: the selection of the last key of the dict, the goals'
\* values in the order of the dict, one output scan per translated scan
get_results(sols, tr) ==
    [Selected |-> sols[Len(sols)].sol.x,
     Goals |-> [i \in 1..Len(sols) |-> [goal |-> sols[i].key, value |-> sols[i].sol.value]],
     Scans |-> [j \in 1..get_num_scans(tr) |-> tr.ScanIDs[j]]]

-----------------------------------------------------------------------------
(* Goal.                                                                   *)
(* A Goal object is [name, tolerance, value]; value is JNull until          *)
(* update_value.  The CP model is [objs, bounds]: the goals whose           *)
(* expression was equated to model.objective, and the bounds added.         *)

IWOGoal == "Minimize Index Write Overhead"
IndexesGoal == "Minimal Indexes"
CostGoal == "Minimal Cost"

\* Goal._names
_names ==
    {IWOGoal, IndexesGoal, CostGoal}

\* Goal.__init__: the two assertions
GoalInitOK(name, tolerance) ==
    name \in _names /\ tolerance >= 0

NewGoal(name, tolerance) ==
    [name |-> name, tolerance |-> tolerance, value |-> JNull]

\* Goal.is_optimized
is_optimized(g) ==
    ~IsNone(g.value)

\* update_value keeping the first value recorded
update_value_Once(g, value) ==
    IF g.value # JNull THEN g ELSE [g EXCEPT !.value = value]

\* Goal.update_value
update_value(g, value) ==
    [g EXCEPT !.value = value]

\* Bound rounding up instead of down
Bound_Ceil(g) ==
    (g.value.v * (100 + g.tolerance) + 99) \div 100

\* floor(self.get_value() * (1 + self._tolerance)), the tolerance in hundredths
Bound(g) ==
    (g.value.v * (100 + g.tolerance)) \div 100

\* Goal.add_as_objective: model.Add(model.objective == <expression>) and Minimize
add_as_objective(g, m) ==
    IF g.name \in {IWOGoal, IndexesGoal, CostGoal}
    THEN [m EXCEPT !.objs = Append(@, g.name)]
    ELSE m

\* Goal.get_value: the assertion, then the value
get_value(g) ==
    IF is_optimized(g) THEN [err |-> "none", ret |-> g.value]
    ELSE [err |-> "AssertionError", ret |-> JNull]

\* add_as_constraint without its assertion
add_as_constraint_Unasserted(g, m) ==
    IF g.name \in {IWOGoal, IndexesGoal, CostGoal}
    THEN [err |-> "none",
          model |-> [m EXCEPT !.bounds = Append(@, [name |-> g.name, bound |-> Bound(g)])]]
    ELSE [err |-> "none", model |-> m]

\* Goal.add_as_constraint: the assertion, then the bound on the expression
add_as_constraint(g, m) ==
    IF ~is_optimized(g) THEN [err |-> "AssertionError", model |-> m]
    ELSE IF g.name \in {IWOGoal, IndexesGoal, CostGoal}
    THEN [err |-> "none",
          model |-> [m EXCEPT !.bounds = Append(@, [name |-> g.name, bound |-> Bound(g)])]]
    ELSE [err |-> "none", model |-> m]

-----------------------------------------------------------------------------
(* The decision model and the solver (specification, sections 4.3, 4.4).   *)

\* the assignments of 0/1 to the selection variables, one per index
Selections(pr) ==
    [1..Len(pr.IWOs) -> {0, 1}]

Min(S) ==
    CHOOSE m \in S : \A n \in S : m <= n

\* the realised cost of scan j: the least cost among the selected indexes,
\* the sequential cost when none is selected
ScanCost(pr, x, j) ==
    Min({pr.R[i][j].v : i \in {h \in DOMAIN x : x[h] = 1}} \cup {pr.SeqCosts[j].v})

RECURSIVE SumTo(_, _)
SumTo(f, n) ==
    IF n = 0 THEN 0 ELSE f[n] + SumTo(f, n - 1)

\* the value at x of the linear expression of the goal called name
Expr(pr, name, x) ==
    IF name = IWOGoal
    THEN SumTo([i \in DOMAIN x |-> x[i] * pr.IWOs[i].v], Len(x))
    ELSE IF name = IndexesGoal
    THEN SumTo(x, Len(x))
    ELSE SumTo([j \in 1..Len(pr.SeqCosts) |-> ScanCost(pr, x, j)], Len(pr.SeqCosts))

\* the constraints the rules give: at most the maximum number of possible
\* indexes selected, at most the maximum total write overhead
Structural(pr, st, x) ==
    /\ 2 * SumTo([i \in DOMAIN x |-> IF i > get_num_eind(pr) THEN x[i] ELSE 0], Len(x))
          <= Twice(get_maximum_num_indexes(st))
    /\ 2 * Expr(pr, IWOGoal, x) <= Twice(get_maximum_iwo(st))

\* x satisfies the model: the rules, every bound added by add_as_constraint,
\* and model.objective equal to every expression add_as_objective equated it to
Feasible(pr, st, m, x) ==
    /\ Structural(pr, st, x)
    /\ \A i \in 1..Len(m.bounds) : Expr(pr, m.bounds[i].name, x) <= m.bounds[i].bound
    /\ \A i, h \in 1..Len(m.objs) : Expr(pr, m.objs[i], x) = Expr(pr, m.objs[h], x)

\* the value of model.objective at a feasible x
Objective(pr, m, x) ==
    Expr(pr, m.objs[Len(m.objs)], x)

\* what the backend may return: with status OPTIMAL a feasible x of least
\* objective, with status FEASIBLE (time limit reached) any feasible x
SolverAnswers(pr, st, m) ==
    LET F == {x \in Selections(pr) : Feasible(pr, st, m, x)}
    IN  {[status |-> "OPTIMAL", x |-> x] :
            x \in {y \in F : \A z \in F : Objective(pr, m, y) <= Objective(pr, m, z)}}
        \cup {[status |-> "FEASIBLE", x |-> x] : x \in F}

-----------------------------------------------------------------------------
(* utils.run: the Reader, then the optimizer over the goals, then the      *)
(* results.                                                                *)

EmptyModel ==
    [objs |-> <<>>, bounds |-> <<>>]

NoResults ==
    [Selected |-> <<>>, Goals |-> <<>>, Scans |-> <<>>]

\* rdr = reader.Reader(data_json, settings_json)
Run_Reader ==
    /\ pc = "start"
    /\ \E r \in {ReaderInit(translation, problem, settings, input)} :
           /\ translation' = r.translation
           /\ problem' = r.problem
           /\ settings' = r.settings
           /\ error' = r.err
           /\ pc' = IF r.err = "none" THEN "reader" ELSE "failed"
    /\ last' = [call |-> "Reader", ret |-> JNull]
    /\ UNCHANGED <<input, solutions, goals, cur, model, calls, results>>

\* optimizer.Optimizer(rdr): a Goal per entry of the settings, the empty model
Run_Optimizer ==
    /\ pc = "reader"
    /\ LET gs == settings.Goals
           ok == \A i \in 1..Len(gs) : GoalInitOK(gs[i].Name, gs[i].Tolerance)
       IN  /\ goals' = IF ok THEN [i \in 1..Len(gs) |-> NewGoal(gs[i].Name, gs[i].Tolerance)]
                       ELSE goals
           /\ error' = IF ok THEN "none" ELSE "AssertionError"
           /\ pc' = IF ~ok THEN "failed"
                    ELSE IF gs = <<>> THEN "results" ELSE "objective"
           /\ cur' = IF ok /\ gs # <<>> THEN 1 ELSE cur
    /\ model' = EmptyModel
    /\ last' = [call |-> "Optimizer", ret |-> JNull]
    /\ UNCHANGED <<input, translation, problem, settings, solutions, calls, results>>

\* the current goal is installed as the objective
Opt_Objective ==
    /\ pc = "objective"
    /\ model' = add_as_objective(goals[cur], model)
    /\ pc' = "solve"
    /\ UNCHANGED <<input, error, translation, problem, settings, solutions, goals,
                   cur, calls, last, results>>

\* the backend is called; its value is recorded in the goal and its solution in
\* the Reader, or the run ends when the model has no solution
Opt_Solve ==
    /\ pc = "solve"
    /\ LET answers == SolverAnswers(problem, settings, model)
       IN  IF answers = {}
           THEN /\ error' = "Infeasible"
                /\ pc' = "failed"
                /\ UNCHANGED <<goals, solutions, calls>>
           ELSE \E a \in answers :
                LET value == Objective(problem, model, a.x)
                    solution == [x |-> a.x, value |-> value]
                IN  /\ goals' = [goals EXCEPT ![cur] = update_value(@, JInt(value))]
                    /\ solutions' = add_solution(solutions, goals[cur].name, solution)
                    /\ calls' = Append(calls, [goal |-> goals[cur].name, sol |-> solution])
                    /\ pc' = "constraint"
                    /\ UNCHANGED error
    /\ UNCHANGED <<input, translation, problem, settings, cur, model, last, results>>

\* the solved goal is installed as a constraint; the next goal, if any, follows
Opt_Constraint ==
    /\ pc = "constraint"
    /\ \E r \in {add_as_constraint(goals[cur], model)} :
           /\ model' = r.model
           /\ error' = r.err
           /\ pc' = IF r.err # "none" THEN "failed"
                    ELSE IF cur < Len(goals) THEN "objective" ELSE "results"
           /\ cur' = IF r.err = "none" /\ cur < Len(goals) THEN cur + 1 ELSE cur
    /\ UNCHANGED <<input, translation, problem, settings, solutions, goals, calls, last, results>>

\* results = opt.get_results()
Run_Results ==
    /\ pc = "results"
    /\ IF solutions = <<>>
       THEN /\ error' = "IndexError"
            /\ pc' = "failed"
            /\ UNCHANGED results
       ELSE /\ results' = get_results(solutions, translation)
            /\ pc' = "done"
            /\ UNCHANGED error
    /\ UNCHANGED <<input, translation, problem, settings, solutions, goals, cur,
                   model, calls, last>>

Next ==
    \/ Run_Reader
    \/ Run_Optimizer
    \/ Opt_Objective
    \/ Opt_Solve
    \/ Opt_Constraint
    \/ Run_Results

-----------------------------------------------------------------------------
(* The inputs of a run.  Scan IDs and index OIDs are distinct (they are     *)
(* identifiers); the existing indexes carry the OIDs 1..nE, the possible    *)
(* ones nE+1..nE+nP; the index of OID i has the raw write overhead 2*(4-i). *)

IndexRecs(lo, hi) ==
    [i \in 1..(hi - lo + 1) |-> [OID |-> lo + i - 1, IWO |-> 2 * (4 - (lo + i - 1))]]

\* the subsequence of the cost entries whose OID lies in lo..hi
RECURSIVE EntriesOf(_, _, _)
EntriesOf(es, lo, hi) ==
    IF es = <<>> THEN <<>>
    ELSE (IF Head(es).OID \in lo..hi THEN <<Head(es)>> ELSE <<>>)
         \o EntriesOf(Tail(es), lo, hi)

\* a problem file: scan j has the sequential cost seq[j] and the cost entries es[j]
MkProblem(nE, nP, seq, es) ==
    [Scans |-> [j \in DOMAIN seq |->
                  [ScanID |-> j, SeqCost |-> seq[j],
                   ExistingIndexCosts |-> EntriesOf(es[j], 1, nE),
                   PossibleIndexCosts |-> EntriesOf(es[j], nE + 1, nE + nP)]],
     Existing |-> IndexRecs(1, nE),
     Possible |-> IndexRecs(nE + 1, nE + nP)]

SeqCostValues ==
    {JNull} \cup {JNum(r) : r \in 0..MaxRaw}

CostEntries(nI) ==
    [OID : 1..nI, Cost : 0..MaxRaw]

\* problems for the normalisation: up to MaxScans scans, the last one of any
\* sequential cost and with up to MaxEntries index costs, the others without a
\* sequential cost or of the cost MaxRaw; zero or one index of each kind
NormalisationProblems ==
    { MkProblem(c.nE, c.nP,
                [j \in 1..c.nS |-> IF j = c.nS THEN c.last_seq
                                   ELSE IF j \in c.nulls THEN JNull ELSE JNum(MaxRaw)],
                [j \in 1..c.nS |-> IF j = c.nS THEN c.es ELSE <<>>]) :
        c \in { d \in [nE : 0..1, nP : 0..1, nS : 1..MaxScans,
                        last_seq : SeqCostValues,
                        nulls : SUBSET (1..(MaxScans - 1)),
                        es : SeqUpTo(CostEntries(2), MaxEntries)] :
                  /\ d.nulls \subseteq 1..(d.nS - 1)
                  /\ \A i \in 1..Len(d.es) : d.es[i].OID <= d.nE + d.nP } }

\* settings that give no goals: the defaults apply
OptionsOnly ==
    [given |-> TRUE, hasOptions |-> TRUE, hasGoals |-> FALSE, Goals |-> <<>>,
     hasRules |-> FALSE, Rules |-> <<>>]

\* problems for the settings: one existing index and up to two possible ones,
\* one scan of cost 2, every index offering cost 1
SettingsProblems ==
    { MkProblem(1, nP, <<JNum(4)>>,
                << [i \in 1..(1 + nP) |-> [OID |-> i, Cost |-> 2]] >>) :
        nP \in 0..2 }

RuleValues ==
    {JNull, JInt(-1), JInt(0), JInt(1), JInt(2), JFloat(-1), JFloat(3), JBool(1), JStr}

RuleRecs ==
    [Name : {MaxPind, MaxIWO}, Value : RuleValues]

SettingsFiles ==
    {NoSettings, EmptyObject}
    \cup { [given |-> TRUE, hasOptions |-> TRUE, hasGoals |-> hg,
            Goals |-> IF hg THEN << [Name |-> CostGoal, Tolerance |-> 0] >> ELSE <<>>,
            hasRules |-> FALSE, Rules |-> <<>>] :
             hg \in BOOLEAN }
    \cup { [given |-> TRUE, hasOptions |-> TRUE, hasGoals |-> hg,
            Goals |-> IF hg THEN << [Name |-> CostGoal, Tolerance |-> 0] >> ELSE <<>>,
            hasRules |-> TRUE, Rules |-> rs] :
             hg \in BOOLEAN,
             rs \in SeqUpTo(RuleRecs, MaxRules) }

\* problems for the optimizer: an existing and a possible index, two scans of
\* sequential cost 3, each index offering a scan nothing or the cost 1 (index 1
\* to scan 2: the cost 2)
SolveProblems ==
    { MkProblem(1, 1, <<JNum(6), JNum(6)>>,
                [j \in 1..2 |-> [i \in 1..Len(c[j]) |->
                    [OID |-> c[j][i],
                     Cost |-> IF c[j][i] = 1 /\ j = 2 THEN 4 ELSE 2]]]) :
        c \in [1..2 -> {<<>>, <<1>>, <<2>>, <<1, 2>>}] }

Tolerances ==
    {0, 50}

GoalRecs ==
    [Name : _names, Tolerance : Tolerances]

SolveSettings ==
    { [given |-> TRUE, hasOptions |-> TRUE, hasGoals |-> TRUE, Goals |-> gs,
       hasRules |-> FALSE, Rules |-> <<>>] :
        gs \in SeqUpTo(GoalRecs, MaxGoals) \ {<<>>} }

Inputs ==
    (NormalisationProblems \X {OptionsOnly})
    \cup (SettingsProblems \X SettingsFiles)
    \cup (SolveProblems \X SolveSettings)

NoCall ==
    [call |-> "none", ret |-> JNull]

\* the class attributes of Reader as the class statement leaves them
Init ==
    /\ input \in {[problem |-> i[1], settings |-> i[2]] : i \in Inputs}
    /\ pc = "start"
    /\ error = "none"
    /\ translation = EmptyTranslation
    /\ problem = EmptyProblem
    /\ settings = EmptySettings
    /\ solutions = <<>>
    /\ goals = <<>>
    /\ cur = 0
    /\ model = EmptyModel
    /\ calls = <<>>
    /\ last = NoCall
    /\ results = NoResults

Spec ==
    Init /\ [][Next]_vars

-----------------------------------------------------------------------------
(* A driver of one Goal object: it calls the methods in any order, up to   *)
(* MaxCalls calls, and keeps the exception of the last call in error.       *)

NoInput ==
    [problem |-> MkProblem(0, 0, <<>>, <<>>), settings |-> NoSettings]

InitGoal ==
    /\ input = NoInput
    /\ pc = "goal"
    /\ error = "none"
    /\ translation = EmptyTranslation
    /\ problem = EmptyProblem
    /\ settings = EmptySettings
    /\ solutions = <<>>
    /\ \E name \in _names, tolerance \in Tolerances :
           GoalInitOK(name, tolerance) /\ goals = <<NewGoal(name, tolerance)>>
    /\ cur = 0
    /\ model = EmptyModel
    /\ calls = <<>>
    /\ last = NoCall
    /\ results = NoResults

Goal_update_value ==
    /\ pc = "goal" /\ cur < MaxCalls
    /\ \E value \in 0..MaxValue :
           /\ goals' = <<update_value(goals[1], JInt(value))>>
           /\ calls' = Append(calls, [goal |-> goals[1].name,
                                      sol |-> [x |-> <<>>, value |-> value]])
    /\ last' = [call |-> "update_value", ret |-> JNull]
    /\ error' = "none"
    /\ cur' = cur + 1
    /\ UNCHANGED <<input, pc, translation, problem, settings, solutions, model, results>>

Goal_get_value ==
    /\ pc = "goal" /\ cur < MaxCalls
    /\ \E r \in {get_value(goals[1])} :
           /\ last' = [call |-> "get_value", ret |-> r.ret]
           /\ error' = r.err
    /\ cur' = cur + 1
    /\ UNCHANGED <<input, pc, translation, problem, settings, solutions, goals, model,
                   calls, results>>

Goal_add_as_objective ==
    /\ pc = "goal" /\ cur < MaxCalls
    /\ model' = add_as_objective(goals[1], model)
    /\ last' = [call |-> "add_as_objective", ret |-> JNull]
    /\ error' = "none"
    /\ cur' = cur + 1
    /\ UNCHANGED <<input, pc, translation, problem, settings, solutions, goals, calls,
                   results>>

Goal_add_as_constraint ==
    /\ pc = "goal" /\ cur < MaxCalls
    /\ \E r \in {add_as_constraint(goals[1], model)} :
           /\ model' = r.model
           /\ error' = r.err
    /\ last' = [call |-> "add_as_constraint", ret |-> JNull]
    /\ cur' = cur + 1
    /\ UNCHANGED <<input, pc, translation, problem, settings, solutions, goals, calls,
                   results>>

NextGoal ==
    \/ Goal_update_value
    \/ Goal_get_value
    \/ Goal_add_as_objective
    \/ Goal_add_as_constraint

SpecGoal ==
    InitGoal /\ [][NextGoal]_vars

-----------------------------------------------------------------------------
(* A driver of the solutions of one Reader: it calls add_solution and       *)
(* get_results in any order, up to MaxCalls calls.  The solution of the     *)
(* n-th call carries the value n.                                           *)

\* a problem of one scan and one possible index, with settings that give a goal
SolutionsInput ==
    [problem |-> MkProblem(0, 1, <<JNum(4)>>, << <<[OID |-> 1, Cost |-> 2]>> >>),
     settings |-> [given |-> TRUE, hasOptions |-> TRUE, hasGoals |-> TRUE,
                   Goals |-> << [Name |-> CostGoal, Tolerance |-> 0] >>,
                   hasRules |-> FALSE, Rules |-> <<>>]]

InitSolutions ==
    /\ input = SolutionsInput
    /\ pc = "solutions"
    /\ \E r \in {ReaderInit(EmptyTranslation, EmptyProblem, EmptySettings, SolutionsInput)} :
           /\ error = r.err
           /\ translation = r.translation
           /\ problem = r.problem
           /\ settings = r.settings
    /\ solutions = <<>>
    /\ goals = <<>>
    /\ cur = 0
    /\ model = EmptyModel
    /\ calls = <<>>
    /\ last = NoCall
    /\ results = NoResults

Reader_add_solution ==
    /\ pc = "solutions" /\ cur < MaxCalls
    /\ \E goal \in _names, x \in Selections(problem) :
           \E solution \in {[x |-> x, value |-> cur + 1]} :
               /\ solutions' = add_solution(solutions, goal, solution)
               /\ calls' = Append(calls, [goal |-> goal, sol |-> solution])
    /\ last' = [call |-> "add_solution", ret |-> JNull]
    /\ error' = "none"
    /\ cur' = cur + 1
    /\ UNCHANGED <<input, pc, translation, problem, settings, goals, model, results>>

Reader_get_results ==
    /\ pc = "solutions" /\ cur < MaxCalls
    /\ IF solutions = <<>>
       THEN /\ error' = "IndexError"
            /\ UNCHANGED results
       ELSE /\ results' = get_results(solutions, translation)
            /\ error' = "none"
    /\ last' = [call |-> "get_results", ret |-> JNull]
    /\ cur' = cur + 1
    /\ UNCHANGED <<input, pc, translation, problem, settings, solutions, goals, model,
                   calls>>

NextSolutions ==
    \/ Reader_add_solution
    \/ Reader_get_results

SpecSolutions ==
    InitSolutions /\ [][NextSolutions]_vars

-----------------------------------------------------------------------------
(* Two Readers created one after the other in one process.  The class       *)
(* attributes are what the first Reader left; Reader.__init__ assigns the   *)
(* keys of _translation, _problem and _settings and leaves _solutions       *)
(* alone.  calls holds the add_solution calls made on the present Reader.   *)

\* the problems of the second Reader: the one of the first Reader, or one with
\* an existing index more
SecondInputs ==
    {SolutionsInput,
     [SolutionsInput EXCEPT
        !.problem = MkProblem(1, 1, <<JNum(4)>>, << <<[OID |-> 2, Cost |-> 2]>> >>)]}

InitRuns ==
    /\ input = SolutionsInput
    /\ pc = "run1"
    /\ \E r \in {ReaderInit(EmptyTranslation, EmptyProblem, EmptySettings, SolutionsInput)} :
           /\ error = r.err
           /\ translation = r.translation
           /\ problem = r.problem
           /\ settings = r.settings
    /\ solutions = <<>>
    /\ goals = <<>>
    /\ cur = 0
    /\ model = EmptyModel
    /\ calls = <<>>
    /\ last = [call |-> "Reader", ret |-> JNull]
    /\ results = NoResults

\* reader.Reader(problem, settings) once more: the second run starts
Runs_Reader ==
    /\ pc = "run1"
    /\ \E in \in SecondInputs :
           \E r \in {ReaderInit(translation, problem, settings, in)} :
               /\ input' = in
               /\ error' = r.err
               /\ translation' = r.translation
               /\ problem' = r.problem
               /\ settings' = r.settings
    /\ pc' = "run2"
    /\ calls' = <<>>
    /\ last' = [call |-> "Reader", ret |-> JNull]
    /\ UNCHANGED <<solutions, goals, cur, model, results>>

Runs_add_solution ==
    /\ pc \in {"run1", "run2"} /\ cur < MaxCalls
    /\ \E goal \in _names, x \in Selections(problem) :
           \E solution \in {[x |-> x, value |-> cur + 1]} :
               /\ solutions' = add_solution(solutions, goal, solution)
               /\ calls' = Append(calls, [goal |-> goal, sol |-> solution])
    /\ last' = [call |-> "add_solution", ret |-> JNull]
    /\ error' = "none"
    /\ cur' = cur + 1
    /\ UNCHANGED <<input, pc, translation, problem, settings, goals, model, results>>

Runs_get_results ==
    /\ pc \in {"run1", "run2"} /\ cur < MaxCalls
    /\ IF solutions = <<>>
       THEN /\ error' = "IndexError"
            /\ UNCHANGED results
       ELSE /\ results' = get_results(solutions, translation)
            /\ error' = "none"
    /\ last' = [call |-> "get_results", ret |-> JNull]
    /\ cur' = cur + 1
    /\ UNCHANGED <<input, pc, translation, problem, settings, solutions, goals, model,
                   calls>>

NextRuns ==
    \/ Runs_Reader
    \/ Runs_add_solution
    \/ Runs_get_results

SpecRuns ==
    InitRuns /\ [][NextRuns]_vars

-----------------------------------------------------------------------------
(* Properties.                                                             *)

\* the Reader constructor raised
ReaderFailed ==
    pc = "failed" /\ last.call = "Reader"

\* the Reader constructor returned
ReaderDone ==
    pc \notin {"start", "goal", "solutions"} /\ ~ReaderFailed

\* the problem file has a possible index and every scan has a sequential cost
WellFormedProblem(p) ==
    /\ Len(p.Possible) >= 1
    /\ \A j \in 1..Len(p.Scans) : ~IsNone(p.Scans[j].SeqCost)

\* the positions of the possible indexes in a selection vector
PossiblePositions ==
    (get_num_eind(problem) + 1)..Len(problem.IWOs)

\* C1: in a run, the solution recorded for a later goal B gives the expression
\* of every earlier goal A a value of at most floor(vA * (1 + toleranceA)),
\* vA being the value recorded for A.
C1_LexMonotone ==
    \A a, b \in 1..Len(calls) :
        (pc \notin {"goal", "solutions"} /\ a < b) =>
            Expr(problem, goals[a].name, calls[b].sol.x)
                <= (calls[a].sol.value * (100 + goals[a].tolerance)) \div 100

\* a run ended in which the second goal's solution uses the first goal's tolerance
C1_Witness ==
    /\ pc = "done" /\ Len(calls) = 2
    /\ goals[1].name # goals[2].name
    /\ goals[1].tolerance > 0
    /\ Expr(problem, goals[1].name, calls[2].sol.x) > calls[1].sol.value

\* C2: while no value was ever recorded in a Goal, no bound is in the model, and
\* a call of get_value or add_as_constraint ends in an assertion error and
\* returns nothing.
C2_UnsolvedFailsFast ==
    (pc = "goal" /\ calls = <<>>) =>
        /\ model.bounds = <<>>
        /\ last.call \in {"get_value", "add_as_constraint"} =>
               (error = "AssertionError" /\ last.ret = JNull)

\* add_as_constraint was called on a Goal without a value, after other calls
C2_Witness ==
    /\ pc = "goal" /\ calls = <<>> /\ cur >= 2
    /\ last.call = "add_as_constraint"
    /\ error = "AssertionError"
    /\ model.objs # <<>>

\* C3: a Goal is unsolved until a value is recorded, solved from then on, and
\* get_value keeps returning the first value recorded, whatever update_value
\* calls follow.
C3_SolvedOnce ==
    pc = "goal" =>
        /\ calls = <<>> => ~is_optimized(goals[1])
        /\ calls # <<>> =>
               (is_optimized(goals[1]) /\ get_value(goals[1]).ret = JInt(calls[1].sol.value))

\* C3 (amended): a Goal is unsolved until a value is recorded and solved from
\* then on, and get_value returns the value of the most recent update_value
\* call.
C3_LastValueRead ==
    pc = "goal" =>
        /\ calls = <<>> => ~is_optimized(goals[1])
        /\ calls # <<>> =>
               /\ is_optimized(goals[1])
               /\ get_value(goals[1]).ret = JInt(calls[Len(calls)].sol.value)
               /\ last.call = "get_value" =>
                      (error = "none" /\ last.ret = JInt(calls[Len(calls)].sol.value))

\* get_value was called after two update_value calls recording different values
C3_Witness ==
    /\ pc = "goal" /\ Len(calls) >= 2
    /\ calls[1].sol.value # calls[Len(calls)].sol.value
    /\ last.call = "get_value"

\* the add_solution calls that are the last one for their goal, in call order
RECURSIVE LatestCalls(_)
LatestCalls(cs) ==
    IF cs = <<>> THEN <<>>
    ELSE (IF \A i \in 2..Len(cs) : cs[i].goal # Head(cs).goal
          THEN << [goal |-> Head(cs).goal, value |-> Head(cs).sol.value] >> ELSE <<>>)
         \o LatestCalls(Tail(cs))

\* C4: get_results takes the selection from the solution of the last
\* add_solution call and lists the goals' achieved values in solve order, also
\* when a goal was named by more than one call.
C4_LastSolutionFinal ==
    (pc = "solutions" /\ last.call = "get_results" /\ error = "none") =>
        /\ results.Selected = calls[Len(calls)].sol.x
        /\ results.Goals = LatestCalls(calls)

\* the scans of the problem file that have a sequential cost
RECURSIVE ScansWithCost(_)
ScansWithCost(scans) ==
    IF scans = <<>> THEN <<>>
    ELSE (IF IsNone(Head(scans).SeqCost) THEN <<>> ELSE <<Head(scans)>>)
         \o ScansWithCost(Tail(scans))

\* C5: when a scan of the problem file has no sequential cost (the file being
\* well-formed otherwise), the Reader is constructed, and the scan counts, has
\* no column and is no output scan, while the other scans are normalised.
C5_NullScanDropped ==
    LET p == input.problem
        kept == ScansWithCost(p.Scans)
    IN  (/\ pc \notin {"start", "goal", "solutions"}
         /\ Len(p.Possible) >= 1
         /\ input.settings.given /\ input.settings.hasOptions
         /\ \E j \in 1..Len(p.Scans) : IsNone(p.Scans[j].SeqCost)) =>
            /\ ReaderDone
            /\ get_num_scans(translation) = Len(kept)
            /\ problem.SeqCosts = [j \in 1..Len(kept) |-> JInt(Upscale(kept[j].SeqCost.v))]
            /\ \A i \in 1..Len(problem.R) :
                   Len(problem.R[i]) = Len(kept) /\ Len(problem.B[i]) = Len(kept)

\* C6: the rule "Maximum Number of Possible Indexes" with the value 0 is
\* accepted, and every solution then selects no possible index.
C6_ZeroPossibleAccepted ==
    (/\ pc \notin {"start", "goal", "solutions"}
     /\ WellFormedProblem(input.problem)
     /\ input.settings.given /\ input.settings.hasOptions /\ input.settings.hasRules
     /\ input.settings.Rules = << [Name |-> MaxPind, Value |-> JInt(0)] >>) =>
        /\ ReaderDone
        /\ \A c \in 1..Len(calls) : \A i \in PossiblePositions : calls[c].sol.x[i] = 0

\* the rules the settings file gives by name
GivenRuleNames(s) ==
    IF s.given /\ s.hasOptions /\ s.hasRules
    THEN {s.Rules[i].Name : i \in 1..Len(s.Rules)} ELSE {}

\* the sum of the upscaled write overheads of the indexes of the problem file
UpscaledIWOs(p) ==
    SumTo([i \in 1..Len(p.Existing \o p.Possible) |->
              Upscale((p.Existing \o p.Possible)[i].IWO)],
          Len(p.Existing \o p.Possible))

\* C7: with the settings omitted the Reader is constructed; and a rule that the
\* settings do not give has, once the Reader is constructed, the value that
\* excludes nothing: the number of possible indexes, the sum of the upscaled
\* write overheads.
C7_DefaultsNonBinding ==
    (pc \notin {"start", "goal", "solutions"} /\ WellFormedProblem(input.problem)) =>
        /\ ~input.settings.given => ReaderDone
        /\ (ReaderDone /\ MaxPind \notin GivenRuleNames(input.settings)) =>
               get_maximum_num_indexes(settings) = JInt(Len(input.problem.Possible))
        /\ (ReaderDone /\ MaxIWO \notin GivenRuleNames(input.settings)) =>
               get_maximum_iwo(settings) = JInt(UpscaledIWOs(input.problem))

\* C8: when the settings give no goals, the goals are two, both of tolerance 0,
\* and a Goal can be constructed from each: its name is one of Goal._names.
C8_DefaultGoalsValid ==
    (ReaderDone /\ input.settings.given /\ input.settings.hasOptions
       /\ ~input.settings.hasGoals) =>
        /\ Len(settings.Goals) = 2
        /\ \A i \in 1..Len(settings.Goals) :
               /\ settings.Goals[i].Tolerance = 0
               /\ GoalInitOK(settings.Goals[i].Name, settings.Goals[i].Tolerance)

\* the raw costs the problem file gives for index i and scan j (positions of the
\* translation)
InputCosts(p, i, j) ==
    LET scan == p.Scans[IndexOf([h \in 1..Len(p.Scans) |-> p.Scans[h].ScanID],
                                translation.ScanIDs[j])]
        es == scan.ExistingIndexCosts \o scan.PossibleIndexCosts
    IN  {es[h].Cost : h \in {g \in 1..Len(es) : es[g].OID = translation.IndexOIDs[i]}}

\* C9: once the problem is normalised, B[i][j] is 1 exactly when R[i][j] is
\* less than the sequential cost of scan j and 0 exactly when it is equal to
\* it; and B[i][j] is 1 only if the file gives index i a cost for scan j below
\* the sequential cost of the file.
C9_MatricesAgree ==
    ReaderDone =>
        \A i \in 1..Len(problem.B) : \A j \in 1..Len(problem.B[i]) :
            /\ problem.B[i][j] \in {0, 1}
            /\ problem.B[i][j] = 1 <=> problem.R[i][j].v < problem.SeqCosts[j].v
            /\ problem.B[i][j] = 0 <=> problem.R[i][j] = problem.SeqCosts[j]
            /\ problem.B[i][j] = 1 =>
                   \E c \in InputCosts(input.problem, i, j) :
                       c < input.problem.Scans[j].SeqCost.v

\* a normalised problem with a covered cell, and an uncovered cell for which
\* the file gives a cost equal to the sequential cost or above it
C9_Witness ==
    /\ ReaderDone
    /\ \E i \in 1..Len(problem.B) : \E j \in 1..Len(problem.B[i]) :
           problem.B[i][j] = 1
    /\ \E i \in 1..Len(problem.B) : \E j \in 1..Len(problem.B[i]) :
           /\ problem.B[i][j] = 0
           /\ \E c \in InputCosts(input.problem, i, j) :
                  c >= input.problem.Scans[j].SeqCost.v

\* a rule value that is given (not null) and is negative or not a JSON number
\* of the kind the rule expects: an integer for the maximum number of possible
\* indexes, an integer or a float for the maximum write overhead
BadRuleValue(rule) ==
    /\ ~IsNone(rule.Value)
    /\ \/ rule.Name = MaxPind /\ (rule.Value.k # "int" \/ rule.Value.v < 0)
       \/ rule.Name = MaxIWO /\ (rule.Value.k \notin {"int", "float"} \/ rule.Value.v < 0)

\* the input is invalid: no possible index, two rules of one name, or a bad value
InvalidInput(in) ==
    \/ Len(in.problem.Possible) = 0
    \/ /\ in.settings.given /\ in.settings.hasOptions /\ in.settings.hasRules
       /\ \/ \E i, h \in 1..Len(in.settings.Rules) :
                 i # h /\ in.settings.Rules[i].Name = in.settings.Rules[h].Name
          \/ \E i \in 1..Len(in.settings.Rules) : BadRuleValue(in.settings.Rules[i])

\* C10: on an invalid input the Reader constructor raises, and the run neither
\* constructs the optimizer nor records a solution.
C10_InvalidRejected ==
    (pc \notin {"start", "goal", "solutions"} /\ InvalidInput(input)) =>
        (ReaderFailed /\ goals = <<>> /\ calls = <<>> /\ solutions = <<>>)

\* x satisfies the rules and the bounds of the goals solved so far
WithinBounds(x) ==
    /\ Structural(problem, settings, x)
    /\ \A i \in 1..Len(model.bounds) :
           Expr(problem, model.bounds[i].name, x) <= model.bounds[i].bound

\* C11: when a goal has been installed as the objective and the solve is about
\* to start, every selection vector that satisfies the rules and the bounds of
\* the goals solved before is feasible for the model, whatever goals were
\* installed as objective before.
C11_ObjectiveKeepsRegion ==
    pc = "solve" =>
        \A x \in Selections(problem) :
            WithinBounds(x) => Feasible(problem, settings, model, x)

\* the solutions the calls cs leave in a Reader that starts with sols
RECURSIVE Recorded(_, _)
Recorded(sols, cs) ==
    IF cs = <<>> THEN sols
    ELSE Recorded(add_solution(sols, Head(cs).goal, Head(cs).sol), Tail(cs))

\* C12: what get_results returns on the second of two Readers is what it
\* returns on the solutions recorded on that Reader alone; with none recorded
\* on it there is no solution to return.
C12_RunsIsolated ==
    (pc = "run2" /\ last.call = "get_results") =>
        IF calls = <<>> THEN error = "IndexError"
        ELSE error = "none" /\ results = get_results(Recorded(<<>>, calls), translation)

====
